---- MODULE Spec2Model ----
(***************************************************************************)
(* The pipeline execution engine of chunkscope:                            *)
(* backend/app/services/pipeline_executor.py, class PipelineExecutor.      *)
(*                                                                         *)
(* One behaviour of Spec is one PipelineExecutor object: its construction  *)
(* (__init__, _build_graph), one call of execute() on the asyncio event    *)
(* loop, the tasks asyncio.gather creates for each wave, and the           *)
(* environment: handlers that return or raise, and a caller that cancels   *)
(* the task running execute().                                             *)
(*                                                                         *)
(* The retrievers and the RRF reranker of backend/app/services:            *)
(* one behaviour of HybridSpec, MmrSpec, ParentSpec or RerankSpec is one  *)
(* call of retrieve() or of fuse() on rows the database returned.         *)
(*                                                                         *)
(* QueryAugmentor (query_augmentor.py): one behaviour of AugmentSpec is a  *)
(* series of augment_* calls that share the class-level _cache and may     *)
(* overlap at the await of _get_completion.                                *)
(*                                                                         *)
(* The chunkers (chunker.py, chunkers/recursive_chunker.py,                *)
(* chunkers/semantic_chunker.py): one behaviour of ChunkSpec or of         *)
(* SemanticSpec is one call of a chunking function on a short text.        *)
(***************************************************************************)
EXTENDS Integers, Sequences, FiniteSets, TLC

VARIABLES
    nodes,            \* self.nodes: the PipelineNode records, in dict order
    edges,            \* self.edges: sequence of [source, target]
    in_degree,        \* self.in_degree (a defaultdict(int))
    results,          \* self.results: node id -> handler output
    status,           \* self.status: the PipelineStatus record
    ready_queue,      \* execute's local ready_queue: the current wave
    completed_count,  \* execute's local completed_count
    api_semaphore,    \* value of the asyncio.Semaphore(5) of execute
    tasks,            \* state of the gather child of each wave position
    inputs,           \* the inputs dict _execute_node gathered, per node
    starts,           \* how many times _execute_node was entered, per node
    faults,           \* what raised so far: handlers, and writes of the checkpoint
    checkpoint,       \* the file .pipelines/<pipeline_id>.json
    cancel_requested, \* task.cancel() was called on the task running execute
    events,           \* the statuses _emit_status passed to the callback
    pc,               \* where execute() is
    raised,           \* the exception execute() raised
    call,             \* the call of a retriever or of the reranker: its arguments
    ret,              \* what that call returned
    cache,            \* QueryAugmentor._cache
    requests          \* the calls of _get_completion, in the order they began

vars == <<nodes, edges, in_degree, results, status, ready_queue,
          completed_count, api_semaphore, tasks, inputs, starts, faults,
          checkpoint, cancel_requested, events, pc, raised, call, ret,
          cache, requests>>

----------------------------------------------------------------------------
(* Bounds of the model *)

\* Small graphs: at most MaxNodes nodes, edge endpoints drawn from 1..MaxNodes
MaxNodes == 3
\* Small graphs: at most MaxEdges edges (in every order, duplicates included)
MaxEdges == 2
\* Wide graphs: ApiLimit + MaxExtra independent nodes
MaxExtra == 4
\* At most MaxFaults handlers or checkpoint writes raise in one run
MaxFaults == 1
\* The database returns at most MaxChunks rows to a search
MaxChunks == 2
\* Raw scores of rows are 0..MaxScore
MaxScore == 1
\* MMR sees at most MaxCandidates candidates
MaxCandidates == 3
\* At most MaxCalls calls of QueryAugmentor
MaxCalls == 3
\* Texts have at most MaxLen characters
MaxLen == 5
\* chunk_size and overlap are at most MaxChunkSize
MaxChunkSize == 3
\* spaCy finds at most MaxSentences sentences
MaxSentences == 4

(* Program constants *)

\* asyncio.Semaphore(5)
ApiLimit == 5

\* MMRRetriever.retrieve(fetch_k=20)
FetchK == 20

\* ReciprocalRankFusionReranker(k=60)
RrfK == 60

\* MultiQueryRetriever(num_variants=3)
NumVariants == 3

\* node types that pass through the semaphore
ApiTypes == {"embedder", "llm", "reranker"}

WideNodes == ApiLimit + MaxExtra

IdMax == IF WideNodes > MaxNodes + 1 THEN WideNodes ELSE MaxNodes + 1

\* every node id an edge can name
IDs == 1..IdMax

----------------------------------------------------------------------------
(* Values *)

\* A handler output: the fall-through return of _execute_node
Output(type, ins) ==
    [kind |-> "output", node_type |-> type, inputs_count |-> Cardinality(DOMAIN ins)]

\* The asyncio.CancelledError instance gather puts in its result list
CancelledErrorValue == [kind |-> "CancelledError", node_type |-> "", inputs_count |-> 0]

\* dict.get of a missing key
NoneValue == [kind |-> "None", node_type |-> "", inputs_count |-> 0]

NoError == [kind |-> "None", node |-> 0]

\* no retriever is called
NoCall == [op |-> "none"]

\* the call has not returned
Pending == [kind |-> "pending", value |-> <<>>]

\* The checkpoint file: absent, holding a JSON object, or cut short
NoCheckpoint == [state |-> "absent", data |-> <<>>]
Checkpoint(res) == [state |-> "written", data |-> res]
PartialCheckpoint == [state |-> "partial", data |-> <<>>]

\* json.dump raises TypeError on a value that is no JSON value
Serializable(res) == \A n \in DOMAIN res : res[n].kind = "output"

\* Python floats that are ratios of small integers, kept exact: <<p, q>> is p / q
Float(p, q) == <<p, q>>

Abs(x) == IF x < 0 THEN -x ELSE x

RECURSIVE GCD(_, _)
GCD(x, y) == IF y = 0 THEN x ELSE GCD(y, x % y)

LCM(x, y) == (x \div GCD(x, y)) * y

\* p / q in lowest terms
Reduced(p, q) == LET g == GCD(Abs(p), q) IN <<p \div g, q \div g>>

\* the numerator of a over the denominator d, a multiple of a's own
Over(a, d) == a[1] * (d \div a[2])

FloatEq(a, b) == LET d == LCM(a[2], b[2]) IN Over(a, d) = Over(b, d)
FloatLeq(a, b) == LET d == LCM(a[2], b[2]) IN Over(a, d) <= Over(b, d)
FloatLt(a, b) == LET d == LCM(a[2], b[2]) IN Over(a, d) < Over(b, d)
FloatAdd(a, b) == LET d == LCM(a[2], b[2]) IN Reduced(Over(a, d) + Over(b, d), d)
FloatSub(a, b) == LET d == LCM(a[2], b[2]) IN Reduced(Over(a, d) - Over(b, d), d)
FloatMul(a, b) == Reduced(a[1] * b[1], a[2] * b[2])
FloatDiv(a, b) == Reduced(a[1] * b[2], a[2] * b[1])

\* completed_count / total_nodes, without the factor 100
ProgressFraction(completed, total) == Float(completed, total)

\* (completed_count / total_nodes) * 100
ProgressPct(completed, total) == Float(completed * 100, total)

----------------------------------------------------------------------------
(* Graphs *)

SeqsUpTo(S, k) == UNION {[1..m -> S] : m \in 0..k}

Edge(s, t) == [source |-> s, target |-> t]

\* Node i is of an API type iff i <= gated
NodeList(n, gated) ==
    [i \in 1..n |-> [id |-> i, type |-> IF i <= gated THEN "llm" ELSE "retriever"]]

SmallGraphs ==
    {[nodes |-> NodeList(n, g), edges |-> es] :
        n \in 0..MaxNodes, g \in {1},
        es \in SeqsUpTo({Edge(s, t) : s, t \in 1..MaxNodes}, MaxEdges)}

\* A -> B, A -> C, B -> D, C -> D
Diamond == <<Edge(1, 2), Edge(1, 3), Edge(2, 4), Edge(3, 4)>>

\* A -> B, B -> C, C -> A
Triangle == <<Edge(1, 2), Edge(2, 3), Edge(3, 1)>>

\* A -> C twice, B -> C
Funnel == <<Edge(1, 3), Edge(1, 3), Edge(2, 3)>>

ScenarioGraphs ==
    {[nodes |-> NodeList(4, g), edges |-> Diamond] : g \in {0, 4}}
    \cup {[nodes |-> NodeList(3, 0), edges |-> Triangle]}
    \cup {[nodes |-> NodeList(3, 0), edges |-> Funnel]}

WideGraphs ==
    {[nodes |-> NodeList(WideNodes, g), edges |-> <<>>] : g \in {0, ApiLimit + 1}}

Graphs == SmallGraphs \cup ScenarioGraphs \cup WideGraphs

----------------------------------------------------------------------------
(* __init__ and _build_graph *)

NodeIds == {nodes[i].id : i \in DOMAIN nodes}

TypeOf(id) == nodes[CHOOSE i \in DOMAIN nodes : nodes[i].id = id].type

\* self.adj[u]: the targets of u's edges, in edge order
RECURSIVE AdjOf(_, _)
AdjOf(es, u) ==
    IF es = <<>> THEN <<>>
    ELSE IF Head(es).source = u
         THEN <<Head(es).target>> \o AdjOf(Tail(es), u)
         ELSE AdjOf(Tail(es), u)

Adj(u) == AdjOf(edges, u)

\* self.in_degree after _build_graph
BuildInDegree(es) ==
    [v \in IDs |-> Cardinality({k \in DOMAIN es : es[k].target = v})]

\* the node ids of in-degree 0, in dict order
RECURSIVE ZeroInDegree(_, _, _)
ZeroInDegree(ns, deg, i) ==
    IF i > Len(ns) THEN <<>>
    ELSE IF deg[ns[i].id] = 0
         THEN <<ns[i].id>> \o ZeroInDegree(ns, deg, i + 1)
         ELSE ZeroInDegree(ns, deg, i + 1)

\* for v in self.adj[u]: deg[v] -= 1; if deg[v] == 0: out.append(v)
RECURSIVE DecrementNeighbors(_, _, _)
DecrementNeighbors(targets, deg, out) ==
    IF targets = <<>> THEN [deg |-> deg, out |-> out]
    ELSE LET v == Head(targets)
             d == [deg EXCEPT ![v] = @ - 1]
         IN  DecrementNeighbors(Tail(targets), d,
                                IF d[v] = 0 THEN Append(out, v) ELSE out)

\* the while loop of _detect_cycle: the number of nodes popped
RECURSIVE KahnCount(_, _, _)
KahnCount(queue, deg, count) ==
    IF queue = <<>> THEN count
    ELSE LET r == DecrementNeighbors(Adj(Head(queue)), deg, Tail(queue))
         IN  KahnCount(r.out, r.deg, count + 1)

DetectCycle ==
    KahnCount(ZeroInDegree(nodes, in_degree, 1), in_degree, 0) # Len(nodes)

\* self.results of an earlier run of this graph that ended COMPLETED
CompletedResults ==
    [n \in NodeIds |->
        Output(TypeOf(n), [s \in {edges[k].source : k \in {m \in DOMAIN edges :
                                     edges[m].target = n}} |-> NoneValue])]

Init ==
    /\ \E g \in Graphs :
          /\ nodes = g.nodes
          /\ edges = g.edges
          /\ in_degree = BuildInDegree(g.edges)
    /\ results = <<>>
    /\ status = [status |-> "PENDING", progress |-> Float(0, 1),
                 current_nodes |-> <<>>, results |-> <<>>, error |-> NoError]
    /\ ready_queue = <<>>
    /\ completed_count = 0
    /\ api_semaphore = ApiLimit
    /\ tasks = <<>>
    /\ inputs = [v \in IDs |-> <<>>]
    /\ starts = [v \in IDs |-> 0]
    /\ faults = {}
    /\ checkpoint \in {NoCheckpoint} \cup
          (IF edges = Diamond THEN {Checkpoint(CompletedResults)} ELSE {})
    /\ cancel_requested = FALSE
    /\ events = <<>>
    /\ pc = "constructed"
    /\ raised = "None"
    /\ call = NoCall
    /\ ret = Pending
    /\ cache = <<>>
    /\ requests = <<>>

----------------------------------------------------------------------------
(* asyncio: the children of gather and the semaphore *)

DoneStates == {"ok", "exc", "raised_cancelled", "cancelled"}

AllDone(ts) == \A i \in DOMAIN ts : ts[i] \in DoneStates

InFlight == {i \in DOMAIN tasks : tasks[i] = "running"}

\* a gather whose cancel() does not reach its children
MustCancelNever == FALSE

\* Task._must_cancel: gather's cancel() reached the child before this step
MustCancel == cancel_requested

\* a wait that returns with the first child that finishes, or with none
GatherDoneFirst == \A i \in DOMAIN tasks : \E j \in DOMAIN tasks : tasks[j] \in DoneStates

\* the future gather returned is done: every child has finished
GatherDone == AllDone(tasks)

Created(wave) == [i \in 1..Len(wave) |-> "created"]

\* sem_execute with "llm_generator" in place of "llm" in its list of types
UsesApiSemaphoreTypo(type) == type \in {"embedder", "llm_generator", "reranker"}

\* sem_execute: whether the node's handler runs under api_semaphore
UsesApiSemaphore(type) == type \in ApiTypes

Gated(i) == ready_queue[i] \in NodeIds /\ UsesApiSemaphore(TypeOf(ready_queue[i]))

\* Semaphore.locked(): no free slot, or a waiter that was not cancelled
Locked == api_semaphore = 0 \/ \E j \in DOMAIN tasks : tasks[j] \in {"waiting", "granted"}

\* Semaphore._wake_up_next(): hand a free slot to the first waiter
WakeUpNext(ts, value) ==
    IF value > 0 /\ \E j \in DOMAIN ts : ts[j] = "waiting"
    THEN LET j == CHOOSE k \in DOMAIN ts :
                     ts[k] = "waiting" /\ \A m \in DOMAIN ts : ts[m] = "waiting" => k <= m
         IN  [tasks |-> [ts EXCEPT ![j] = "granted"], value |-> value - 1]
    ELSE [tasks |-> ts, value |-> value]

Put(f, k, v) == [x \in DOMAIN f \cup {k} |-> IF x = k THEN v ELSE f[x]]

Get(f, k) == IF k \in DOMAIN f THEN f[k] ELSE NoneValue

\* _execute_node, step 1: inputs[edge.source] = self.results.get(edge.source)
GatherInputs(node_id) ==
    LET sources == {edges[k].source : k \in {m \in DOMAIN edges : edges[m].target = node_id}}
    IN  [s \in sources |-> Get(results, s)]

\* _execute_node is entered for the node at wave position i
StartHandler(i, ts) ==
    /\ tasks' = [ts EXCEPT ![i] = "running"]
    /\ inputs' = [inputs EXCEPT ![ready_queue[i]] = GatherInputs(ready_queue[i])]
    /\ starts' = [starts EXCEPT ![ready_queue[i]] = @ + 1]

----------------------------------------------------------------------------
(* execute() *)

\* the head of the while loop: dispatch the wave, or finish with COMPLETED
EnterLoop(wave, st, res, evs) ==
    IF wave # <<>>
    THEN /\ status' = [st EXCEPT !.current_nodes = wave]
         /\ events' = Append(evs, status')
         /\ tasks' = Created(wave)
         /\ pc' = "gather"
    ELSE /\ status' = [st EXCEPT !.status = "COMPLETED", !.results = res]
         /\ events' = Append(evs, status')
         /\ tasks' = <<>>
         /\ pc' = "returned"

\* the cycle check moved inside the try block: the ValueError sets FAILED
ExecuteRejectInsideTry ==
    /\ pc = "constructed"
    /\ DetectCycle
    /\ status' = [status EXCEPT !.status = "FAILED",
                                !.error = [kind |-> "ValueError", node |-> 0]]
    /\ events' = Append(events, status')
    /\ pc' = "raised"
    /\ raised' = "ValueError"
    /\ UNCHANGED <<cache, requests, call, ret, checkpoint, nodes, edges, in_degree, results, ready_queue,
                   completed_count, api_semaphore, tasks, inputs, starts,
                   faults, cancel_requested>>

\* if self._detect_cycle(): raise ValueError
ExecuteReject ==
    /\ pc = "constructed"
    /\ DetectCycle
    /\ pc' = "raised"
    /\ raised' = "ValueError"
    /\ UNCHANGED <<cache, requests, call, ret, checkpoint, nodes, edges, in_degree, results, status, ready_queue,
                   completed_count, api_semaphore, tasks, inputs, starts,
                   faults, cancel_requested, events>>

\* execute() from its call to its first await
ExecuteBegin ==
    /\ pc = "constructed"
    /\ ~DetectCycle
    /\ ready_queue' = ZeroInDegree(nodes, in_degree, 1)
    /\ LET running == [status EXCEPT !.status = "RUNNING"]
       IN  EnterLoop(ready_queue', running, results, Append(events, running))
    /\ UNCHANGED <<cache, requests, call, ret, checkpoint, nodes, edges, in_degree, results, completed_count,
                   api_semaphore, inputs, starts, faults, cancel_requested, raised>>

\* the first step of the gather child at wave position i: sem_execute
TaskStep(i) ==
    /\ pc = "gather"
    /\ ~MustCancel
    /\ tasks[i] = "created"
    /\ \A j \in 1..(i - 1) : tasks[j] # "created"
    /\ IF ready_queue[i] \notin NodeIds
       THEN \* self.nodes[node_id] raises KeyError
            /\ tasks' = [tasks EXCEPT ![i] = "exc"]
            /\ UNCHANGED <<api_semaphore, inputs, starts>>
       ELSE IF Gated(i)
       THEN IF Locked
            THEN /\ tasks' = [tasks EXCEPT ![i] = "waiting"]
                 /\ UNCHANGED <<api_semaphore, inputs, starts>>
            ELSE /\ api_semaphore' = api_semaphore - 1
                 /\ StartHandler(i, tasks)
       ELSE /\ StartHandler(i, tasks)
            /\ UNCHANGED api_semaphore
    /\ UNCHANGED <<cache, requests, call, ret, checkpoint, nodes, edges, in_degree, results, status, ready_queue,
                   completed_count, faults, cancel_requested, events, pc, raised>>

\* a waiter that was handed a slot leaves acquire() and enters the handler
Resume(i) ==
    /\ pc = "gather"
    /\ ~MustCancel
    /\ tasks[i] = "granted"
    /\ LET w == WakeUpNext([tasks EXCEPT ![i] = "running"], api_semaphore)
       IN  /\ StartHandler(i, w.tasks)
           /\ api_semaphore' = w.value
    /\ UNCHANGED <<cache, requests, call, ret, checkpoint, nodes, edges, in_degree, results, status, ready_queue,
                   completed_count, faults, cancel_requested, events, pc, raised>>

\* the handler at wave position i returns, raises an Exception, or raises
\* asyncio.CancelledError; an API node releases the semaphore
Finish(i, outcome) ==
    /\ pc = "gather"
    /\ ~MustCancel
    /\ tasks[i] = "running"
    /\ outcome # "ok" => Cardinality(faults) < MaxFaults
    /\ faults' = IF outcome = "ok" THEN faults
                 ELSE faults \cup {[node |-> ready_queue[i], raised |-> outcome,
                                    at |-> completed_count]}
    /\ LET ts == [tasks EXCEPT ![i] = outcome]
           w == IF Gated(i) THEN WakeUpNext(ts, api_semaphore + 1)
                ELSE [tasks |-> ts, value |-> api_semaphore]
       IN  /\ tasks' = w.tasks
           /\ api_semaphore' = w.value
    /\ UNCHANGED <<cache, requests, call, ret, checkpoint, nodes, edges, in_degree, results, status, ready_queue,
                   completed_count, inputs, starts, cancel_requested, events,
                   pc, raised>>

\* the for loop without its isinstance(result, Exception) test
RECURSIVE ProcessResultsNoRaise(_, _, _, _, _)
ProcessResultsNoRaise(i, res, deg, cnt, next) ==
    IF i > Len(ready_queue)
    THEN [failed |-> 0, results |-> res, in_degree |-> deg, completed |-> cnt, next |-> next]
    ELSE LET node_id == ready_queue[i]
             value == IF tasks[i] = "ok" /\ node_id \in NodeIds
                      THEN Output(TypeOf(node_id), inputs[node_id])
                      ELSE CancelledErrorValue
             r == DecrementNeighbors(Adj(node_id), deg, next)
         IN  ProcessResultsNoRaise(i + 1, Put(res, node_id, value), r.deg, cnt + 1, r.out)

\* the for loop with every neighbor appended, whatever its in_degree
RECURSIVE ProcessResultsNoInDegreeTest(_, _, _, _, _)
ProcessResultsNoInDegreeTest(i, res, deg, cnt, next) ==
    IF i > Len(ready_queue)
    THEN [failed |-> 0, results |-> res, in_degree |-> deg, completed |-> cnt, next |-> next]
    ELSE IF tasks[i] = "exc"
    THEN [failed |-> i, results |-> res, in_degree |-> deg, completed |-> cnt, next |-> next]
    ELSE LET node_id == ready_queue[i]
             value == IF tasks[i] = "ok"
                      THEN Output(TypeOf(node_id), inputs[node_id])
                      ELSE CancelledErrorValue
             r == DecrementNeighbors(Adj(node_id), deg, next)
         IN  ProcessResultsNoInDegreeTest(i + 1, Put(res, node_id, value), r.deg, cnt + 1,
                                          next \o Adj(node_id))

\* the for loop over zip(ready_queue, wave_results), up to the first Exception
RECURSIVE ProcessResults(_, _, _, _, _)
ProcessResults(i, res, deg, cnt, next) ==
    IF i > Len(ready_queue)
    THEN [failed |-> 0, results |-> res, in_degree |-> deg, completed |-> cnt, next |-> next]
    ELSE IF tasks[i] = "exc"
    THEN [failed |-> i, results |-> res, in_degree |-> deg, completed |-> cnt, next |-> next]
    ELSE LET node_id == ready_queue[i]
             value == IF tasks[i] = "ok"
                      THEN Output(TypeOf(node_id), inputs[node_id])
                      ELSE CancelledErrorValue
             r == DecrementNeighbors(Adj(node_id), deg, next)
         IN  ProcessResults(i + 1, Put(res, node_id, value), r.deg, cnt + 1, r.out)

\* except Exception: FAILED
Fail(st, kind, node_id) ==
    /\ status' = [st EXCEPT !.status = "FAILED", !.error = [kind |-> kind, node |-> node_id]]
    /\ events' = Append(events, status')
    /\ pc' = "raised"
    /\ raised' = kind
    /\ UNCHANGED <<tasks, ready_queue>>

\* _save_checkpoint: os.makedirs raises to execute(); a failure of open or of
\* json.dump is caught and logged
SaveCheckpoint(res, cnt, write) ==
    /\ write = "ok" => Serializable(res)
    /\ write \in {"open", "dump"} /\ Serializable(res) => Cardinality(faults) < MaxFaults
    /\ faults' = IF write \in {"open", "dump"} /\ Serializable(res)
                 THEN faults \cup {[node |-> 0, raised |-> write, at |-> cnt]}
                 ELSE faults
    /\ checkpoint' = CASE write = "ok" -> Checkpoint(res)
                        [] write = "dump" -> PartialCheckpoint
                        [] OTHER -> checkpoint

\* gather returned the wave's results: steps 3 to 5 of the loop, then the next
\* wave, COMPLETED, or FAILED
ProcessWave ==
    /\ pc = "gather"
    /\ ~cancel_requested
    /\ GatherDone
    /\ LET p == ProcessResults(1, results, in_degree, completed_count, <<>>)
       IN  /\ results' = p.results
           /\ in_degree' = p.in_degree
           /\ completed_count' = p.completed
           /\ IF p.failed # 0
              THEN /\ Fail(status,
                        IF ready_queue[p.failed] \in NodeIds THEN "Exception" ELSE "KeyError",
                        ready_queue[p.failed])
                   /\ UNCHANGED <<cache, requests, call, ret, checkpoint, faults>>
              ELSE \E write \in {"ok", "makedirs", "open", "dump"} :
                      /\ SaveCheckpoint(p.results, p.completed, write)
                      /\ IF write = "makedirs"
                         THEN Fail(status, "OSError", 0)
                         ELSE /\ ready_queue' = p.next
                              /\ LET st == [status EXCEPT !.progress =
                                               ProgressPct(p.completed, Len(nodes))]
                                 IN  EnterLoop(p.next, st, p.results, Append(events, st))
                              /\ UNCHANGED raised
    /\ UNCHANGED <<cache, requests, call, ret, nodes, edges, api_semaphore, inputs, starts, cancel_requested>>

\* task.cancel() on the task that runs execute(), while it awaits gather
Cancel ==
    /\ pc = "gather"
    /\ ~cancel_requested
    /\ cancel_requested' = TRUE
    /\ UNCHANGED <<cache, requests, call, ret, checkpoint, nodes, edges, in_degree, results, status, ready_queue,
                   completed_count, api_semaphore, tasks, inputs, starts, faults,
                   events, pc, raised>>

\* the cancelled child at wave position i ends with CancelledError
AckCancel(i) ==
    /\ pc = "gather"
    /\ cancel_requested
    /\ tasks[i] \notin DoneStates
    /\ \A j \in 1..(i - 1) : tasks[j] \in DoneStates
    /\ tasks' = [tasks EXCEPT ![i] = "cancelled"]
    /\ api_semaphore' = IF tasks[i] = "granted" \/ (tasks[i] = "running" /\ Gated(i))
                        THEN api_semaphore + 1 ELSE api_semaphore
    /\ UNCHANGED <<cache, requests, call, ret, checkpoint, nodes, edges, in_degree, results, status, ready_queue,
                   completed_count, inputs, starts, faults, cancel_requested,
                   events, pc, raised>>

\* gather raises CancelledError into execute(): except asyncio.CancelledError
ExecuteCancelled ==
    /\ pc = "gather"
    /\ cancel_requested
    /\ GatherDone
    /\ status' = [status EXCEPT !.status = "CANCELLED",
                                !.error = [kind |-> "Pipeline execution was cancelled.", node |-> 0]]
    /\ events' = Append(events, status')
    /\ pc' = "raised"
    /\ raised' = "CancelledError"
    /\ UNCHANGED <<cache, requests, call, ret, checkpoint, nodes, edges, in_degree, results, ready_queue, completed_count,
                   api_semaphore, tasks, inputs, starts, faults, cancel_requested>>

Next ==
    \/ ExecuteReject
    \/ ExecuteBegin
    \/ \E i \in DOMAIN tasks : TaskStep(i)
    \/ \E i \in DOMAIN tasks : Resume(i)
    \/ \E i \in DOMAIN tasks : \E outcome \in {"ok", "exc", "raised_cancelled"} : Finish(i, outcome)
    \/ ProcessWave
    \/ Cancel
    \/ \E i \in DOMAIN tasks : AckCancel(i)
    \/ ExecuteCancelled

Spec == Init /\ [][Next]_vars

\* the event loop runs every task that is ready: a cancelled child takes its
\* CancelledError, and execute() resumes once gather is done
FairSpec ==
    /\ Spec
    /\ WF_vars(\E i \in DOMAIN tasks : AckCancel(i))
    /\ WF_vars(ExecuteCancelled)

----------------------------------------------------------------------------
(* Rows, lists and sorting *)

Min(a, b) == IF a <= b THEN a ELSE b

\* s[:n] for n >= 0
Prefix(s, n) == SubSeq(s, 1, Min(n, Len(s)))

ChunkIds == 1..MaxChunks

\* a row of a search: the chunk and its score
Row(c, x) == [chunk |-> c, score |-> Float(x, 1)]

Rows == {Row(c, x) : c \in ChunkIds, x \in 0..MaxScore}

\* ORDER BY score DESC over distinct chunks
Ranked(rs) ==
    /\ \A i, j \in DOMAIN rs : i # j => rs[i].chunk # rs[j].chunk
    /\ \A i, j \in DOMAIN rs : i < j => FloatLeq(rs[j].score, rs[i].score)

\* what a search returns when no LIMIT cuts it
RowLists == {rs \in SeqsUpTo(Rows, MaxChunks) : Ranked(rs)}

\* list.insert that keeps equal scores in their order of arrival, ascending
RECURSIVE InsertAscending(_, _)
InsertAscending(sorted, e) ==
    IF sorted = <<>> THEN <<e>>
    ELSE IF FloatLeq(Head(sorted).score, e.score)
         THEN <<Head(sorted)>> \o InsertAscending(Tail(sorted), e)
         ELSE <<e>> \o sorted

\* sorted(xs, key=score): ascending
RECURSIVE SortedByScoreAscending(_)
SortedByScoreAscending(xs) ==
    IF xs = <<>> THEN <<>>
    ELSE InsertAscending(SortedByScoreAscending(SubSeq(xs, 1, Len(xs) - 1)), xs[Len(xs)])

RECURSIVE InsertDescending(_, _)
InsertDescending(sorted, e) ==
    IF sorted = <<>> THEN <<e>>
    ELSE IF FloatLeq(e.score, Head(sorted).score)
         THEN <<Head(sorted)>> \o InsertDescending(Tail(sorted), e)
         ELSE <<e>> \o sorted

\* sorted(xs, key=score, reverse=True): descending and stable
RECURSIVE SortedByScore(_)
SortedByScore(xs) ==
    IF xs = <<>> THEN <<>>
    ELSE InsertDescending(SortedByScore(SubSeq(xs, 1, Len(xs) - 1)), xs[Len(xs)])

----------------------------------------------------------------------------
(* HybridRetriever *)

\* HybridRetriever(db, alpha=0.7), and the pure keyword and pure vector uses
Alphas == {Float(0, 1), Float(7, 10), Float(1, 1)}

\* _vector_search: ORDER BY score DESC LIMIT limit
VectorSearch(dense, limit) == Prefix(dense, limit)

\* _keyword_search: ORDER BY score DESC LIMIT limit
KeywordSearch(keyword, limit) == Prefix(keyword, limit)

MaxOf(rows) ==
    rows[CHOOSE i \in DOMAIN rows :
                \A j \in DOMAIN rows : FloatLeq(rows[j].score, rows[i].score)].score

MinOf(rows) ==
    rows[CHOOSE i \in DOMAIN rows :
                \A j \in DOMAIN rows : FloatLeq(rows[i].score, rows[j].score)].score

\* normalize: norm_score in [0, 1], 1.0 for all when the scores are equal
Normalize(rows) ==
    IF rows = <<>> THEN <<>>
    ELSE LET max_s == MaxOf(rows)
             min_s == MinOf(rows)
         IN  [i \in DOMAIN rows |->
                [chunk |-> rows[i].chunk,
                 norm_score |-> IF FloatEq(max_s, min_s) THEN Float(1, 1)
                                ELSE FloatDiv(FloatSub(rows[i].score, min_s),
                                              FloatSub(max_s, min_s))]]

\* scores[cid] = {...} for a vector result: a new key, or the value replaced
RECURSIVE AddVector(_, _, _)
AddVector(scores, vector, alpha) ==
    IF vector = <<>> THEN scores
    ELSE LET res == Head(vector)
             e == [chunk |-> res.chunk, score |-> FloatMul(res.norm_score, alpha)]
             new == IF \E k \in DOMAIN scores : scores[k].chunk = res.chunk
                    THEN [k \in DOMAIN scores |->
                             IF scores[k].chunk = res.chunk THEN e ELSE scores[k]]
                    ELSE Append(scores, e)
         IN  AddVector(new, Tail(vector), alpha)

\* scores[cid]["score"] += ... for a keyword result, or a new key
RECURSIVE AddKeyword(_, _, _)
AddKeyword(scores, keyword, alpha) ==
    IF keyword = <<>> THEN scores
    ELSE LET res == Head(keyword)
             part == FloatMul(res.norm_score, FloatSub(Float(1, 1), alpha))
             new == IF \E k \in DOMAIN scores : scores[k].chunk = res.chunk
                    THEN [k \in DOMAIN scores |->
                             IF scores[k].chunk = res.chunk
                             THEN [scores[k] EXCEPT !.score = FloatAdd(@, part)]
                             ELSE scores[k]]
                    ELSE Append(scores, [chunk |-> res.chunk, score |-> part])
         IN  AddKeyword(new, Tail(keyword), alpha)

\* _combine_results: the values of the scores dict, sorted, cut to top_k
CombineResults(vector_results, keyword_results, alpha, top_k) ==
    LET scores == AddKeyword(AddVector(<<>>, Normalize(vector_results), alpha),
                             Normalize(keyword_results), alpha)
    IN  Prefix(SortedByScore(scores), top_k)

\* HybridRetriever.retrieve
HybridResult(c) ==
    LET vector_results == IF FloatLt(Float(0, 1), c.alpha) /\ c.has_embedding
                          THEN VectorSearch(c.dense, c.top_k * 2) ELSE <<>>
        keyword_results == IF FloatLt(c.alpha, Float(1, 1))
                           THEN KeywordSearch(c.keyword, c.top_k * 2) ELSE <<>>
    IN  CombineResults(vector_results, keyword_results, c.alpha, c.top_k)

HybridCalls ==
    {[op |-> "hybrid", dense |-> d, keyword |-> k, alpha |-> a, top_k |-> t,
      has_embedding |-> e] :
        d \in RowLists, k \in RowLists, a \in Alphas, t \in 0..(MaxChunks + 1),
        e \in BOOLEAN}

Returned(value) == [kind |-> "list", value |-> value]

HybridRetrieve ==
    /\ call.op = "hybrid"
    /\ ret = Pending
    /\ ret' = Returned(HybridResult(call))
    /\ UNCHANGED <<nodes, edges, in_degree, results, status, ready_queue,
                   completed_count, api_semaphore, tasks, inputs, starts, faults,
                   checkpoint, cancel_requested, events, pc, raised, call,
                   cache, requests>>

\* the executor's variables while no executor exists
NoExecutor ==
    /\ nodes = <<>>
    /\ edges = <<>>
    /\ in_degree = [v \in IDs |-> 0]
    /\ results = <<>>
    /\ status = [status |-> "PENDING", progress |-> Float(0, 1),
                 current_nodes |-> <<>>, results |-> <<>>, error |-> NoError]
    /\ ready_queue = <<>>
    /\ completed_count = 0
    /\ api_semaphore = ApiLimit
    /\ tasks = <<>>
    /\ inputs = [v \in IDs |-> <<>>]
    /\ starts = [v \in IDs |-> 0]
    /\ faults = {}
    /\ checkpoint = NoCheckpoint
    /\ cancel_requested = FALSE
    /\ events = <<>>
    /\ pc = "absent"
    /\ raised = "None"

\* no call of QueryAugmentor was made
NoAugmentor == cache = <<>> /\ requests = <<>>

HybridInit == NoExecutor /\ NoAugmentor /\ call \in HybridCalls /\ ret = Pending

HybridSpec == HybridInit /\ [][HybridRetrieve]_vars

----------------------------------------------------------------------------
(* MMRRetriever *)

\* chunk embeddings, in units of 1/100: [1,0,0], [0.99,0.01,0], [0,1,0], [0.6,0.8,0]
Embeddings == {<<100, 0, 0>>, <<99, 1, 0>>, <<0, 100, 0>>, <<60, 80, 0>>}

\* lambda_mult: 0.5 by default; 0, 0.1, 0.9 and 1 as well
Lambdas == {Float(0, 10), Float(1, 10), Float(5, 10), Float(9, 10), Float(10, 10)}

\* np.dot
Dot(a, b) == a[1] * b[1] + a[2] * b[2] + a[3] * b[3]

\* Newton's iteration down to the integer square root of n > 0
RECURSIVE ISqrtFrom(_, _)
ISqrtFrom(n, x) ==
    LET y == (x + n \div x) \div 2 IN IF y >= x THEN x ELSE ISqrtFrom(n, y)

\* np.linalg.norm, rounded down to the unit of the embeddings
Norm(a) == ISqrtFrom(Dot(a, a), Dot(a, a))

\* cosine_similarity: np.dot(a, b) / (np.linalg.norm(a) * np.linalg.norm(b))
CosineSimilarity(a, b) == Float(Dot(a, b), Norm(a) * Norm(b))

\* np.argmax over the positions idx of a list of floats: the first maximum
ArgMax(values, idx) ==
    CHOOSE i \in idx :
        /\ \A j \in idx : FloatLeq(values[j], values[i])
        /\ \A j \in idx : j < i => FloatLt(values[j], values[i])

\* max([doc_similarities[i, j] for j in selected_indices])
Redundancy(doc_embeddings, i, selected) ==
    LET sims == [k \in DOMAIN selected |->
                    CosineSimilarity(doc_embeddings[i], doc_embeddings[selected[k]])]
    IN  sims[ArgMax(sims, DOMAIN sims)]

\* lambda_mult * relevance - (1 - lambda_mult) * redundancy
MmrScore(lambda_mult, relevance, redundancy) ==
    FloatSub(FloatMul(lambda_mult, relevance),
             FloatMul(FloatSub(Float(1, 1), lambda_mult), redundancy))

\* remaining_indices.remove(x)
Remove(seq, x) == SelectSeq(seq, LAMBDA y : y # x)

\* while len(selected_indices) < min(k, n)
RECURSIVE MmrLoop(_, _, _, _, _, _)
MmrLoop(query_embedding, doc_embeddings, lambda_mult, k, selected, remaining) ==
    IF ~(Len(selected) < Min(k, Len(doc_embeddings))) THEN selected
    ELSE LET mmr_scores == [p \in DOMAIN remaining |->
                 MmrScore(lambda_mult,
                          CosineSimilarity(query_embedding, doc_embeddings[remaining[p]]),
                          Redundancy(doc_embeddings, remaining[p], selected))]
             best == remaining[ArgMax(mmr_scores, DOMAIN mmr_scores)]
         IN  MmrLoop(query_embedding, doc_embeddings, lambda_mult, k,
                     Append(selected, best), Remove(remaining, best))

\* _maximal_marginal_relevance: the selected positions, in selection order
MaximalMarginalRelevance(query_embedding, doc_embeddings, lambda_mult, k) ==
    IF doc_embeddings = <<>> THEN <<>>
    ELSE LET n == Len(doc_embeddings)
             similarities_to_query ==
                 [i \in 1..n |-> CosineSimilarity(query_embedding, doc_embeddings[i])]
             first == ArgMax(similarities_to_query, 1..n)
             remaining == Remove([i \in 1..n |-> i], first)
         IN  MmrLoop(query_embedding, doc_embeddings, lambda_mult, k, <<first>>, remaining)

\* MMRRetriever.retrieve: candidate i is the chunk at position i of the
\* rows ORDER BY score DESC LIMIT fetch_k
MmrResult(c) ==
    IF ~c.has_embedding THEN <<>>
    ELSE LET candidates == Prefix(c.candidates, FetchK)
             selected_indices == MaximalMarginalRelevance(c.query_embedding, candidates,
                                                          c.lambda_mult, c.top_k)
         IN  [p \in DOMAIN selected_indices |->
                [chunk |-> selected_indices[p],
                 score |-> CosineSimilarity(c.query_embedding,
                                            candidates[selected_indices[p]])]]

\* the candidates come ordered by their similarity to the query
MmrCalls ==
    {[op |-> "mmr", candidates |-> cs, query_embedding |-> q, has_embedding |-> e,
      lambda_mult |-> l, top_k |-> t] :
        q \in Embeddings, e \in BOOLEAN, l \in Lambdas, t \in 0..(MaxCandidates + 1),
        cs \in SeqsUpTo(Embeddings, MaxCandidates)}

MmrRetrieve ==
    /\ call.op = "mmr"
    /\ ret = Pending
    /\ ret' = Returned(MmrResult(call))
    /\ UNCHANGED <<nodes, edges, in_degree, results, status, ready_queue,
                   completed_count, api_semaphore, tasks, inputs, starts, faults,
                   checkpoint, cancel_requested, events, pc, raised, call,
                   cache, requests>>

MmrInit ==
    /\ NoExecutor
    /\ NoAugmentor
    /\ call \in {c \in MmrCalls :
                    \A i, j \in DOMAIN c.candidates : i < j =>
                        FloatLeq(CosineSimilarity(c.query_embedding, c.candidates[j]),
                                 CosineSimilarity(c.query_embedding, c.candidates[i]))}
    /\ ret = Pending

MmrSpec == MmrInit /\ [][MmrRetrieve]_vars

----------------------------------------------------------------------------
(* ParentDocumentRetriever *)

\* the rows of the child chunks: every assignment of parents to ranked rows
ChildLists ==
    UNION {{[i \in DOMAIN rs |-> [chunk |-> rs[i].chunk, score |-> rs[i].score,
                                  parent_chunk_id |-> ps[i]]] :
               ps \in [DOMAIN rs -> ChunkIds]} : rs \in RowLists}

\* the orders in which the database can return parent chunks: some may be gone
ParentOrders ==
    {o \in SeqsUpTo(ChunkIds, MaxChunks) : \A i, j \in DOMAIN o : i # j => o[i] # o[j]}

\* step 2: per parent, the first child of highest score
RECURSIVE GroupByParent(_, _)
GroupByParent(children, parent_scores) ==
    IF children = <<>> THEN parent_scores
    ELSE LET row == Head(children)
             pid == row.parent_chunk_id
             new == IF pid \notin DOMAIN parent_scores
                       \/ FloatLt(parent_scores[pid].score, row.score)
                    THEN Put(parent_scores, pid, [score |-> row.score, child_id |-> row.chunk])
                    ELSE parent_scores
         IN  GroupByParent(Tail(children), new)

\* ParentDocumentRetriever.retrieve
ParentResult(c) ==
    IF ~c.has_embedding THEN <<>>
    ELSE LET children == Prefix(c.children, c.top_k * 2)
         IN  IF children = <<>>
             THEN Prefix(c.dense, c.top_k)
             ELSE LET parent_scores == GroupByParent(children, <<>>)
                      parents == SelectSeq(c.parent_order,
                                           LAMBDA x : x \in DOMAIN parent_scores)
                      final_results ==
                          [i \in DOMAIN parents |->
                              [chunk |-> parents[i],
                               score |-> parent_scores[parents[i]].score,
                               metadata |-> [child_id |-> parent_scores[parents[i]].child_id]]]
                  IN  Prefix(SortedByScore(final_results), c.top_k)

\* the fallback search is made only when there are no children
ParentCalls ==
    {[op |-> "parent", children |-> ch, dense |-> d, parent_order |-> o, top_k |-> t,
      has_embedding |-> e] :
        ch \in ChildLists, d \in RowLists, o \in ParentOrders, t \in 0..(MaxChunks + 1),
        e \in BOOLEAN}

ParentRetrieve ==
    /\ call.op = "parent"
    /\ ret = Pending
    /\ ret' = Returned(ParentResult(call))
    /\ UNCHANGED <<nodes, edges, in_degree, results, status, ready_queue,
                   completed_count, api_semaphore, tasks, inputs, starts, faults,
                   checkpoint, cancel_requested, events, pc, raised, call,
                   cache, requests>>

ParentInit ==
    /\ NoExecutor
    /\ NoAugmentor
    /\ call \in {c \in ParentCalls : c.children = <<>> \/ c.dense = <<>>}
    /\ ret = Pending

ParentSpec == ParentInit /\ [][ParentRetrieve]_vars

----------------------------------------------------------------------------
(* ReciprocalRankFusionReranker.fuse and MultiQueryRetriever *)

\* Python's None
None == 0

\* dict.get(key) of a result dict
DocGet(doc, key) == IF key \in DOMAIN doc THEN doc[key] ELSE None

\* doc.get("id") or doc.get("text")
DocId(doc) == IF DocGet(doc, "id") # None THEN DocGet(doc, "id") ELSE DocGet(doc, "text")

\* 1.0 / (self.k + rank + 1), rank counted from 0
RankScore(rank) == Float(1, RrfK + rank + 1)

\* the inner loop of fuse over one ranking, from the 0-based position rank on;
\* fused holds the keys of fused_scores in insertion order
RECURSIVE FuseRanking(_, _, _)
FuseRanking(ranking, rank, fused) ==
    IF rank >= Len(ranking) THEN fused
    ELSE LET doc == ranking[rank + 1]
             doc_id == DocId(doc)
             new == IF doc_id = None THEN fused
                    ELSE IF \E k \in DOMAIN fused : fused[k].doc_id = doc_id
                    THEN [k \in DOMAIN fused |->
                             IF fused[k].doc_id = doc_id
                             THEN [fused[k] EXCEPT !.score = FloatAdd(@, RankScore(rank))]
                             ELSE fused[k]]
                    ELSE Append(fused, [doc_id |-> doc_id, doc |-> doc,
                                        score |-> FloatAdd(Float(0, 1), RankScore(rank))])
         IN  FuseRanking(ranking, rank + 1, new)

RECURSIVE FuseRankings(_, _)
FuseRankings(rankings, fused) ==
    IF rankings = <<>> THEN fused
    ELSE FuseRankings(Tail(rankings), FuseRanking(Head(rankings), 0, fused))

\* ReciprocalRankFusionReranker.fuse
Fuse(rankings, top_k) ==
    LET sorted_ids == SortedByScore(FuseRankings(rankings, <<>>))
        top == Prefix(sorted_ids, top_k)
    IN  [i \in DOMAIN top |-> Put(top[i].doc, "rerank_score", top[i].score)]

\* MultiQueryRetriever.retrieve, given what the base retriever returned for
\* each query variant
MultiQueryResult(c) ==
    LET combined_results == Fuse(c.results_lists, c.top_k)
    IN  [i \in DOMAIN combined_results |->
            LET res == combined_results[i]
                metadata == IF "metadata" \in DOMAIN res THEN res["metadata"] ELSE <<>>
            IN  Put(res, "metadata", Put(metadata, "augmented_queries", c.queries))]

\* a result of the mock retriever of the tests: {"id", "text", "score"}
IdDoc(i) == [id |-> i, text |-> 10 + i, score |-> Float(1, 1)]

\* a result of HybridRetriever: {"chunk", "score"}
ChunkDoc(c) == [chunk |-> c, score |-> Float(1, 1)]

\* a result with a text and no id
TextDoc == [text |-> 10, score |-> Float(1, 1)]

DistinctSeqs(S, k) == {q \in SeqsUpTo(S, k) : \A i, j \in DOMAIN q : i # j => q[i] # q[j]}

IdRankings == DistinctSeqs({IdDoc(i) : i \in ChunkIds}, MaxChunks)

ChunkRankings == DistinctSeqs({ChunkDoc(c) : c \in ChunkIds}, MaxChunks)

MixedRankings ==
    DistinctSeqs({IdDoc(i) : i \in ChunkIds} \cup {TextDoc, ChunkDoc(1)}, MaxChunks)

FuseCalls ==
    {[op |-> "fuse", rankings |-> rs, top_k |-> t] :
        rs \in SeqsUpTo(MixedRankings, NumVariants), t \in 0..(MaxChunks + 1)}

MultiQueryCalls ==
    {[op |-> "multi_query", queries |-> [i \in 1..n |-> i], results_lists |-> rl,
      top_k |-> t] :
        n \in 1..NumVariants, t \in 0..(MaxChunks + 1),
        rl \in UNION {[1..m -> IdRankings] \cup [1..m -> ChunkRankings] : m \in 1..NumVariants}}

FuseCall ==
    /\ call.op = "fuse"
    /\ ret = Pending
    /\ ret' = Returned(Fuse(call.rankings, call.top_k))
    /\ UNCHANGED <<nodes, edges, in_degree, results, status, ready_queue,
                   completed_count, api_semaphore, tasks, inputs, starts, faults,
                   checkpoint, cancel_requested, events, pc, raised, call,
                   cache, requests>>

MultiQueryRetrieve ==
    /\ call.op = "multi_query"
    /\ ret = Pending
    /\ ret' = Returned(MultiQueryResult(call))
    /\ UNCHANGED <<nodes, edges, in_degree, results, status, ready_queue,
                   completed_count, api_semaphore, tasks, inputs, starts, faults,
                   checkpoint, cancel_requested, events, pc, raised, call,
                   cache, requests>>

\* one result list per query variant
RerankInit ==
    /\ NoExecutor
    /\ NoAugmentor
    /\ call \in FuseCalls \cup
                {c \in MultiQueryCalls : Len(c.results_lists) = Len(c.queries)}
    /\ ret = Pending

RerankNext == FuseCall \/ MultiQueryRetrieve

RerankSpec == RerankInit /\ [][RerankNext]_vars

----------------------------------------------------------------------------
(* QueryAugmentor *)

Queries == {"a", "b"}

\* num_variants of augment_multi_query; 0 stands for the calls without it
Variants == {1, NumVariants}

\* what the chat completion can answer
Completions ==
    {"[\"v1\", \"v2\", \"v3\"]",
     "[\"a\", \"v1\", \"v2\", \"v3\"]",
     "{\"queries\": [\"v1\"]}",
     "v1\nv2",
     "Variants:\n[\"v1\"]",
     ""}

\* what it answers to the prompts of augment_hyde and augment_expansion
Answers(op) == IF op = "multi" THEN Completions ELSE {"v1\nv2", ""}

\* the return of _get_completion without a client
Simulated == "SIMULATED RESPONSE: No API Key provided."

\* a cache_key that matches no other first argument
CacheKeyNoVariants(op, query, num_variants) == op \o "_" \o query

\* f"multi_{query}_{num_variants}", f"hyde_{query}", f"expand_{query}"
CacheKey(op, query, num_variants) ==
    IF op = "multi" THEN "multi_" \o query \o "_" \o ToString(num_variants)
    ELSE op \o "_" \o query

\* f"Original Query: {query}", f"Query: {query}"
UserPrompt(op, query) ==
    IF op = "multi" THEN "Original Query: " \o query ELSE "Query: " \o query

\* json.loads: a list of strings, another JSON value, or JSONDecodeError
JsonLoads(text) ==
    CASE text = "[\"v1\", \"v2\", \"v3\"]" ->
            [kind |-> "list", items |-> <<"v1", "v2", "v3">>]
      [] text = "[\"a\", \"v1\", \"v2\", \"v3\"]" ->
            [kind |-> "list", items |-> <<"a", "v1", "v2", "v3">>]
      [] text = "{\"queries\": [\"v1\"]}" ->
            [kind |-> "dict", items |-> <<>>]
      [] OTHER -> [kind |-> "JSONDecodeError", items |-> <<>>]

\* [l.strip().strip('"') for l in response_text.split('\n') if l.strip()]
Lines(text) ==
    CASE text = "v1\nv2" -> <<"v1", "v2">>
      [] text = "Variants:\n[\"v1\"]" -> <<"Variants:", "[\"v1\"]">>
      [] text = "" -> <<>>
      [] OTHER -> <<text>>

\* l.startswith('[') or l.startswith(']')
StartsWithBracket(l) == l = "[\"v1\"]"

InList(x, xs) == \E i \in DOMAIN xs : xs[i] = x

\* a Python value a call returns
NoneResult == [kind |-> "None", items |-> <<>>, text |-> ""]
ListResult(xs) == [kind |-> "list", items |-> xs, text |-> ""]
StrResult(s) == [kind |-> "str", items |-> <<>>, text |-> s]

\* augment_multi_query after the completion: lines 62 to 76
ParseVariants(response_text, query, num_variants) ==
    LET variants == JsonLoads(response_text)
    IN  IF variants.kind = "list"
        THEN IF ~InList(query, variants.items)
             THEN ListResult(<<query>> \o Prefix(variants.items, num_variants - 1))
             ELSE ListResult(variants.items)
        ELSE IF variants.kind # "JSONDecodeError"
        THEN NoneResult
        ELSE LET lines == Lines(response_text)
                 kept == SelectSeq(lines, LAMBDA l : l # "" /\ ~StartsWithBracket(l))
             IN  IF kept = <<>> THEN ListResult(<<query>>)
                 ELSE ListResult(Prefix(kept, num_variants))

\* what the call returns for the completion it got
Augmented(r) ==
    IF r.op = "multi" THEN ParseVariants(r.text, r.query, r.num_variants)
    ELSE StrResult(r.text)

\* the calls that one of QueryAugmentor's objects can receive
AugmentCalls ==
    {[op |-> "multi", query |-> q, num_variants |-> n, has_client |-> c] :
        q \in Queries, n \in Variants, c \in BOOLEAN}
    \cup {[op |-> o, query |-> q, num_variants |-> 0, has_client |-> c] :
        o \in {"hyde", "expand"}, q \in Queries, c \in BOOLEAN}

\* the number of calls begun and returned so far, plus one
Tick ==
    1 + Len(requests) + Cardinality({i \in DOMAIN requests : requests[i].ended > 0})

Request(c, pc_, source, text, began, ended) ==
    [op |-> c.op, query |-> c.query, num_variants |-> c.num_variants,
     has_client |-> c.has_client, pc |-> pc_, source |-> source, text |-> text,
     began |-> began, ended |-> ended]

\* _get_completion up to its await: a cached value, the placeholder, or the
\* request to the chat completion
GetCompletionBegin(c) ==
    /\ Len(requests) < MaxCalls
    /\ LET cache_key == CacheKey(c.op, c.query, c.num_variants)
       IN  requests' = Append(requests,
              IF cache_key \in DOMAIN cache
              THEN Request(c, "returned", "cache", cache[cache_key], Tick, Tick + 1)
              ELSE IF ~c.has_client
              THEN Request(c, "returned", "simulated", Simulated, Tick, Tick + 1)
              ELSE Request(c, "awaiting", "llm", "", Tick, 0))
    /\ UNCHANGED cache
    /\ UNCHANGED <<nodes, edges, in_degree, results, status, ready_queue,
                   completed_count, api_semaphore, tasks, inputs, starts, faults,
                   checkpoint, cancel_requested, events, pc, raised, call, ret>>

\* the chat completion answers: the content is cached and returned
GetCompletionReturn(i, content) ==
    /\ requests[i].pc = "awaiting"
    /\ LET r == requests[i]
           cache_key == CacheKey(r.op, r.query, r.num_variants)
       IN  /\ cache' = Put(cache, cache_key, content)
           /\ requests' = [requests EXCEPT ![i] =
                  [r EXCEPT !.pc = "returned", !.text = content, !.ended = Tick]]
    /\ UNCHANGED <<nodes, edges, in_degree, results, status, ready_queue,
                   completed_count, api_semaphore, tasks, inputs, starts, faults,
                   checkpoint, cancel_requested, events, pc, raised, call, ret>>

\* the chat completion raises: except Exception, return user_prompt
GetCompletionExcept(i) ==
    /\ requests[i].pc = "awaiting"
    /\ LET r == requests[i]
       IN  requests' = [requests EXCEPT ![i] =
              [r EXCEPT !.pc = "returned", !.source = "fallback",
                        !.text = UserPrompt(r.op, r.query), !.ended = Tick]]
    /\ UNCHANGED cache
    /\ UNCHANGED <<nodes, edges, in_degree, results, status, ready_queue,
                   completed_count, api_semaphore, tasks, inputs, starts, faults,
                   checkpoint, cancel_requested, events, pc, raised, call, ret>>

AugmentInit == NoExecutor /\ NoAugmentor /\ call = NoCall /\ ret = Pending

AugmentNext ==
    \/ \E c \in AugmentCalls : GetCompletionBegin(c)
    \/ \E i \in DOMAIN requests : \E content \in Answers(requests[i].op) :
          GetCompletionReturn(i, content)
    \/ \E i \in DOMAIN requests : GetCompletionExcept(i)

AugmentSpec == AugmentInit /\ [][AugmentNext]_vars

----------------------------------------------------------------------------
(* Texts: Python str as a sequence of characters *)

Alphabet == {"a", ".", " ", "\n"}

Texts == SeqsUpTo(Alphabet, MaxLen)

Max(a, b) == IF a >= b THEN a ELSE b

\* the index a slice bound stands for: negative counts from the end
SliceIndex(t, i) == IF i < 0 THEN Max(Len(t) + i, 0) ELSE Min(i, Len(t))

\* t[i:j]
Slice(t, i, j) ==
    LET a == SliceIndex(t, i)
        b == SliceIndex(t, j)
    IN  IF a < b THEN SubSeq(t, a + 1, b) ELSE <<>>

\* t.startswith(prefix)
StartsWith(t, prefix) ==
    Len(prefix) <= Len(t) /\ SubSeq(t, 1, Len(prefix)) = prefix

\* t.split(sep) for a non-empty sep: parts after the part acc in progress
RECURSIVE SplitFrom(_, _, _)
SplitFrom(t, sep, acc) ==
    IF t = <<>> THEN <<acc>>
    ELSE IF StartsWith(t, sep)
         THEN <<acc>> \o SplitFrom(SubSeq(t, Len(sep) + 1, Len(t)), sep, <<>>)
         ELSE SplitFrom(Tail(t), sep, Append(acc, Head(t)))

\* list(t)
Characters(t) == [i \in DOMAIN t |-> <<t[i]>>]

\* text.split(separator) if separator else list(text)
Split(t, sep) == IF sep = <<>> THEN Characters(t) ELSE SplitFrom(t, sep, <<>>)

\* sep.join(parts)
RECURSIVE Join(_, _)
Join(sep, parts) ==
    IF parts = <<>> THEN <<>>
    ELSE IF Len(parts) = 1 THEN parts[1]
    ELSE parts[1] \o sep \o Join(sep, Tail(parts))

\* hay.find(needle): the lowest index of an occurrence, or -1
Find(hay, needle) ==
    LET at == {i \in 0..Len(hay) : StartsWith(SubSeq(hay, i + 1, Len(hay)), needle)}
    IN  IF at = {} THEN -1 ELSE CHOOSE i \in at : \A j \in at : i <= j

Whitespace == {" ", "\n"}

\* t.strip()
RECURSIVE LStrip(_)
LStrip(t) == IF t # <<>> /\ Head(t) \in Whitespace THEN LStrip(Tail(t)) ELSE t

RECURSIVE RStrip(_)
RStrip(t) ==
    IF t # <<>> /\ t[Len(t)] \in Whitespace THEN RStrip(SubSeq(t, 1, Len(t) - 1)) ELSE t

Strip(t) == LStrip(RStrip(t))

----------------------------------------------------------------------------
(* chunker.py: fixed_size_chunking and recursive_chunking *)

\* if chunk_size <= 0: chunk_size = 512
DefaultChunkSize == 512

\* a chunk with its offsets
Chunk(text, start, end) == [text |-> text, start |-> start, end |-> end]

\* the while loop may run MaxPasses times
MaxPasses == MaxLen + 2

\* fixed_size_chunking is about to test its while condition
Looping(chunks, start, chunk_size) ==
    [kind |-> "loop", value |-> chunks, start |-> start, chunk_size |-> chunk_size]

\* fixed_size_chunking up to the while loop
FixedBegin ==
    /\ call.op = "fixed"
    /\ ret = Pending
    /\ ret' = Looping(<<>>, 0,
                      IF call.chunk_size <= 0 THEN DefaultChunkSize ELSE call.chunk_size)
    /\ UNCHANGED <<nodes, edges, in_degree, results, status, ready_queue,
                   completed_count, api_semaphore, tasks, inputs, starts, faults,
                   checkpoint, cancel_requested, events, pc, raised, call,
                   cache, requests>>

\* one test of the while condition, and one pass of the loop if it holds
FixedPass ==
    /\ call.op = "fixed"
    /\ ret.kind = "loop"
    /\ Len(ret.value) < MaxPasses
    /\ LET text == call.text
           start == ret.start
           end == Min(start + ret.chunk_size, Len(text))
           chunks == Append(ret.value, Chunk(Slice(text, start, end), start, end))
           next == IF end - call.overlap >= end THEN end ELSE end - call.overlap
       IN  ret' = IF ~(start < Len(text)) THEN Returned(ret.value)
                  ELSE IF end >= Len(text) THEN Returned(chunks)
                  ELSE Looping(chunks, next, ret.chunk_size)
    /\ UNCHANGED <<nodes, edges, in_degree, results, status, ready_queue,
                   completed_count, api_semaphore, tasks, inputs, starts, faults,
                   checkpoint, cancel_requested, events, pc, raised, call,
                   cache, requests>>

\* separators = ["\n\n", "\n", ". ", " ", ""]
Separators == <<<<"\n", "\n">>, <<"\n">>, <<".", " ">>, <<" ">>, <<>>>>

\* split_text: the for loop, with splits the pieces still to place
RECURSIVE SplitText(_, _, _)
RECURSIVE PlacePieces(_, _, _, _, _)
PlacePieces(splits, separators, chunk_size, current, chunks) ==
    IF splits = <<>>
    THEN IF current # <<>> THEN Append(chunks, current) ELSE chunks
    ELSE LET piece == Head(splits) \o separators[1]
             flushed == IF current # <<>> THEN Append(chunks, current) ELSE chunks
         IN  IF Len(current) + Len(piece) > chunk_size
             THEN IF Len(piece) > chunk_size
                  THEN PlacePieces(Tail(splits), separators, chunk_size, <<>>,
                                   flushed \o SplitText(piece, Tail(separators), chunk_size))
                  ELSE PlacePieces(Tail(splits), separators, chunk_size, piece, flushed)
             ELSE PlacePieces(Tail(splits), separators, chunk_size, current \o piece, chunks)

SplitText(text, separators, chunk_size) ==
    IF separators = <<>> THEN <<text>>
    ELSE PlacePieces(Split(text, separators[1]), separators, chunk_size, <<>>, <<>>)

\* the loop over raw_chunks: offsets by running position, blank chunks dropped
RECURSIVE Positioned(_, _)
Positioned(raw_chunks, pos) ==
    IF raw_chunks = <<>> THEN <<>>
    ELSE LET chunk == Head(raw_chunks)
         IN  IF Strip(chunk) = <<>>
             THEN Positioned(Tail(raw_chunks), pos + Len(chunk))
             ELSE <<Chunk(chunk, pos, pos + Len(chunk))>>
                  \o Positioned(Tail(raw_chunks), pos + Len(chunk))

\* recursive_chunking
RecursiveChunking(text, chunk_size, overlap) ==
    Positioned(SplitText(text, Separators, chunk_size), 0)

----------------------------------------------------------------------------
(* RecursiveChunker *)

\* self.separators = ["\n\n", "\n", " ", ""]
ChunkerSeparators == <<<<"\n", "\n">>, <<"\n">>, <<" ">>, <<>>>>

\* _make_chunk: start_index = original_text.find(chunk_text) unless it is given
MakeChunk(chunk_text, original_text, start_index) ==
    LET start == IF start_index = -1 THEN Find(original_text, chunk_text) ELSE start_index
    IN  Chunk(chunk_text, start, start + Len(chunk_text))

\* _create_chunks: hard split by character length, from start on
RECURSIVE CreateChunks(_, _, _, _)
CreateChunks(text, size, overlap, start) ==
    IF ~(start < Len(text)) THEN <<>>
    ELSE LET end == Min(start + size, Len(text))
         IN  <<MakeChunk(Slice(text, start, end), text, start)>>
             \o CreateChunks(text, size, overlap, start + size - overlap)

RECURSIVE RecursiveSplit(_, _, _, _)
RECURSIVE Reassemble(_, _, _, _, _, _, _)

\* current_chunk is closed: split further if oversized, else one chunk
Finalize(current_chunk, text, separators, chunk_size, overlap) ==
    LET joined_text == Join(separators[1], current_chunk)
    IN  IF Len(joined_text) > chunk_size
        THEN RecursiveSplit(joined_text, Tail(separators), chunk_size, overlap)
        ELSE <<MakeChunk(joined_text, text, -1)>>

\* the for loop of _recursive_split and the handling of the last chunk
Reassemble(splits, text, separators, chunk_size, overlap, current_chunk, current_len) ==
    IF splits = <<>>
    THEN IF current_chunk # <<>>
         THEN Finalize(current_chunk, text, separators, chunk_size, overlap)
         ELSE <<>>
    ELSE LET split == Head(splits)
             step == Len(split) + Len(separators[1])
         IN  IF current_len + step > chunk_size /\ current_chunk # <<>>
             THEN Finalize(current_chunk, text, separators, chunk_size, overlap)
                  \o Reassemble(Tail(splits), text, separators, chunk_size, overlap,
                                <<split>>, step)
             ELSE Reassemble(Tail(splits), text, separators, chunk_size, overlap,
                             Append(current_chunk, split), current_len + step)

\* _recursive_split
RecursiveSplit(text, separators, chunk_size, overlap) ==
    IF separators = <<>> THEN CreateChunks(text, chunk_size, overlap, 0)
    ELSE Reassemble(Split(text, separators[1]), text, separators, chunk_size, overlap,
                    <<>>, 0)

\* the chunking function a call names
Chunked(c) ==
    IF c.op = "recursive"
    THEN RecursiveChunking(c.text, c.chunk_size, c.overlap)
    ELSE RecursiveSplit(c.text, ChunkerSeparators, c.chunk_size, c.overlap)

\* recursive_chunking or RecursiveChunker.chunk, from call to return
ChunkText ==
    /\ call.op \in {"recursive", "recursive_chunker"}
    /\ ret = Pending
    /\ ret' = Returned(Chunked(call))
    /\ UNCHANGED <<nodes, edges, in_degree, results, status, ready_queue,
                   completed_count, api_semaphore, tasks, inputs, starts, faults,
                   checkpoint, cancel_requested, events, pc, raised, call,
                   cache, requests>>

\* ChunkingConfig: chunk_size and overlap >= 0; the recursive splitters get a
\* chunk_size of at least 1
ChunkCalls ==
    {[op |-> "fixed", text |-> t, chunk_size |-> s, overlap |-> o] :
        t \in Texts, s \in 0..MaxChunkSize, o \in 0..MaxChunkSize}
    \cup {[op |-> p, text |-> t, chunk_size |-> s, overlap |-> 0] :
        p \in {"recursive", "recursive_chunker"}, t \in Texts, s \in 2..MaxChunkSize}

ChunkInit == NoExecutor /\ NoAugmentor /\ call \in ChunkCalls /\ ret = Pending

ChunkNext == FixedBegin \/ FixedPass \/ ChunkText

ChunkSpec == ChunkInit /\ [][ChunkNext]_vars

----------------------------------------------------------------------------
(* SemanticChunker *)

\* a sentence spaCy found: its offsets in the text
Sent(s, e) == [start_char |-> s, end_char |-> e]

\* at most n non-empty spans, in order, none starting before pos
RECURSIVE SentencesFrom(_, _)
SentencesFrom(pos, n) ==
    {<<>>} \cup
    (IF n = 0 THEN {}
     ELSE UNION {UNION {{<<Sent(s, e)>> \o rest : rest \in SentencesFrom(e, n - 1)} :
                           e \in (s + 1)..MaxLen} :
                    s \in pos..(MaxLen - 1)})

\* doc.sents with blank sentences dropped
SentenceLists == SentencesFrom(0, MaxSentences)

\* cosine similarities of the windows on the two sides of a gap
Similarities == {Float(0, 1), Float(1, 2), Float(1, 1)}

\* config.threshold
Thresholds == {Float(1, 2), Float(1, 1)}

\* a local minimum by strict comparison
IsValleyStrict(similarities, i) ==
    LET val_left == IF i > 1 THEN similarities[i - 1] ELSE Float(1, 1)
        val_right == IF i < Len(similarities) THEN similarities[i + 1] ELSE Float(1, 1)
    IN  FloatLt(similarities[i], val_left) /\ FloatLt(similarities[i], val_right)

\* is_valley: (sim <= val_left) and (sim <= val_right), 1.0 beyond the ends
IsValley(similarities, i) ==
    LET val_left == IF i > 1 THEN similarities[i - 1] ELSE Float(1, 1)
        val_right == IF i < Len(similarities) THEN similarities[i + 1] ELSE Float(1, 1)
    IN  FloatLeq(similarities[i], val_left) /\ FloatLeq(similarities[i], val_right)

\* the chunk of the sentences collected in current_chunk_sents
SentChunk(current_chunk_sents) ==
    [start_char |-> current_chunk_sents[1].start_char,
     end_char |-> current_chunk_sents[Len(current_chunk_sents)].end_char]

\* the loop over the gaps, from gap i on, and the final chunk
RECURSIVE SplitAtValleys(_, _, _, _)
SplitAtValleys(c, i, current_chunk_sents, chunks) ==
    IF i > Len(c.similarities)
    THEN IF current_chunk_sents # <<>>
         THEN Append(chunks, SentChunk(current_chunk_sents))
         ELSE chunks
    ELSE LET sim == c.similarities[i]
             cur == SentChunk(current_chunk_sents)
             should_split == FloatLt(sim, c.threshold) /\ IsValley(c.similarities, i)
         IN  IF should_split /\ cur.end_char - cur.start_char >= c.min_chunk_size
             THEN SplitAtValleys(c, i + 1, <<c.sentences[i + 1]>>, Append(chunks, cur))
             ELSE SplitAtValleys(c, i + 1, Append(current_chunk_sents, c.sentences[i + 1]),
                                 chunks)

\* SemanticChunker.chunk after the sentences and the similarities are known
SemanticResult(c) ==
    IF c.sentences = <<>> THEN <<>>
    ELSE IF Len(c.sentences) = 1 THEN <<SentChunk(c.sentences)>>
    ELSE SplitAtValleys(c, 1, <<c.sentences[1]>>, <<>>)

SemanticCalls ==
    {[op |-> "semantic", sentences |-> ss, similarities |-> sims, threshold |-> th,
      min_chunk_size |-> m] :
        ss \in SentenceLists, sims \in SeqsUpTo(Similarities, MaxSentences - 1),
        th \in Thresholds, m \in 1..MaxChunkSize}

SemanticChunk ==
    /\ call.op = "semantic"
    /\ ret = Pending
    /\ ret' = Returned(SemanticResult(call))
    /\ UNCHANGED <<nodes, edges, in_degree, results, status, ready_queue,
                   completed_count, api_semaphore, tasks, inputs, starts, faults,
                   checkpoint, cancel_requested, events, pc, raised, call,
                   cache, requests>>

\* one similarity per gap between two sentences
SemanticInit ==
    /\ NoExecutor
    /\ NoAugmentor
    /\ call \in {c \in SemanticCalls :
                    Len(c.similarities) = IF c.sentences = <<>> THEN 0
                                          ELSE Len(c.sentences) - 1}
    /\ ret = Pending

SemanticSpec == SemanticInit /\ [][SemanticChunk]_vars

----------------------------------------------------------------------------
(* Vocabulary of the properties *)

TerminalStatuses == {"COMPLETED", "FAILED", "CANCELLED"}

RateGatedKinds == {"embedder", "llm", "reranker"}

\* the wave positions whose node is of a rate-gated kind
RateGated == {i \in DOMAIN tasks :
                 ready_queue[i] \in NodeIds /\ TypeOf(ready_queue[i]) \in RateGatedKinds}

\* the sources of the edges into node n
Parents(n) == {edges[k].source : k \in {m \in DOMAIN edges : edges[m].target = n}}

\* the nodes that edges between nodes of the graph lead to from the nodes of S
Successors(S) ==
    {edges[k].target : k \in {m \in DOMAIN edges :
        edges[m].source \in S /\ edges[m].source \in NodeIds /\ edges[m].target \in NodeIds}}

RECURSIVE ReachableFrom(_)
ReachableFrom(S) ==
    LET T == S \cup Successors(S) IN IF T = S THEN S ELSE ReachableFrom(T)

\* a directed cycle through nodes of the graph, a self-loop included
HasCycle == \E n \in NodeIds : n \in ReachableFrom(Successors({n}))

\* the nodes whose handler raised an Exception
Failed == {f.node : f \in {g \in faults : g.raised = "exc"}}

\* some child of the current wave ended with an Exception
WaveRaised == \E i \in DOMAIN tasks : tasks[i] = "exc"

\* the first wave position whose child ended with an Exception
FirstRaised ==
    CHOOSE i \in DOMAIN tasks :
        tasks[i] = "exc" /\ \A j \in DOMAIN tasks : tasks[j] = "exc" => i <= j

\* the statuses the run went through, as emitted
StatusTrail == <<"PENDING">> \o [k \in 1..Len(events) |-> events[k].status]

StatusStep(a, b) ==
    \/ a = b
    \/ a = "PENDING" /\ b = "RUNNING"
    \/ a = "RUNNING" /\ b \in TerminalStatuses

ProgressMonotone ==
    \A k \in 1..(Len(events) - 1) : FloatLeq(events[k].progress, events[k + 1].progress)

----------------------------------------------------------------------------
(* Properties *)

\* C1: a node's handler is started only after every source of an edge into it
\* has completed successfully and its output is stored in results; the inputs
\* gathered for the node hold the recorded output of each parent.
C1_ParentsCompleted ==
    \A n \in NodeIds :
        starts[n] > 0 =>
            \A p \in Parents(n) :
                /\ p \in DOMAIN results
                /\ results[p].kind = "output"
                /\ p \in DOMAIN inputs[n]
                /\ inputs[n][p] = results[p]

\* C2: execute on a graph with a directed cycle (a self-loop included) fails
\* at once with the cycle error: the status stays PENDING, no handler is
\* started, nothing is emitted and results stays empty.
C2_CycleRejected ==
    HasCycle =>
        /\ pc \in {"constructed", "raised"}
        /\ pc = "raised" => raised = "ValueError"
        /\ status.status = "PENDING"
        /\ events = <<>>
        /\ results = <<>>
        /\ \A v \in IDs : starts[v] = 0

\* C3: never more than 5 handlers of embedder, llm or reranker nodes are in
\* flight, and a node of another kind never waits for the rate gate.
C3_RateGate ==
    /\ Cardinality(InFlight \cap RateGated) <= 5
    /\ \A i \in DOMAIN tasks : tasks[i] \in {"waiting", "granted"} => i \in RateGated

C3_Witness ==
    /\ Cardinality(InFlight \cap RateGated) = 5
    /\ \E i \in RateGated : tasks[i] = "waiting"
          /\ \E j \in InFlight \ RateGated : j > i

C6_StatusMonotone ==
    /\ status.status = StatusTrail[Len(StatusTrail)]
    /\ \A k \in 1..Len(events) : StatusStep(StatusTrail[k], StatusTrail[k + 1])

C6_Witness ==
    /\ Len(events) >= 4
    /\ status.status = "CANCELLED"
    /\ StatusTrail[2] = "RUNNING"

C8_CancelStopsDispatch ==
    /\ [][cancel_requested => starts' = starts]_vars
    /\ cancel_requested ~> (status.status = "CANCELLED")

C8_Witness ==
    /\ status.status = "CANCELLED"
    /\ \E i \in DOMAIN tasks : tasks[i] = "cancelled" /\ starts[ready_queue[i]] = 0
    /\ \E i \in DOMAIN tasks : tasks[i] = "cancelled" /\ starts[ready_queue[i]] = 1

\* C9: the status is not CANCELLED while a handler of the run is in flight:
\* every child of the wave has finished before the transition.
C9_CancelledAfterAck ==
    status.status = "CANCELLED" =>
        /\ InFlight = {}
        /\ \A i \in DOMAIN tasks : tasks[i] \in DoneStates

C9_Witness ==
    /\ status.status = "CANCELLED"
    /\ Cardinality({i \in DOMAIN tasks :
                        tasks[i] = "cancelled" /\ starts[ready_queue[i]] = 1}) >= 2

\* C10: when the run ends FAILED or CANCELLED, the output of every node whose
\* handler returned successfully is in results, and a node that never ran
\* has no entry.
C10_PartialResultsKept ==
    status.status \in {"FAILED", "CANCELLED"} =>
        /\ \A i \in DOMAIN tasks :
              (tasks[i] = "ok" /\ ready_queue[i] \in NodeIds) =>
                  /\ ready_queue[i] \in DOMAIN results
                  /\ results[ready_queue[i]].kind = "output"
        /\ \A n \in NodeIds : starts[n] = 0 => n \notin DOMAIN results

\* the nodes whose output the checkpoint file holds
Checkpointed == IF checkpoint.state = "written" THEN DOMAIN checkpoint.data ELSE {}

\* C11: once execute has started on a graph, every node whose output is in
\* the checkpoint of the run id is marked complete with that output, and no
\* handler is in flight for such a node; a re-run after a full checkpoint
\* invokes no handler.
C11_ResumeFromCheckpoint ==
    pc \in {"gather", "returned"} =>
        /\ \A n \in Checkpointed :
              n \in DOMAIN results /\ results[n] = checkpoint.data[n]
        /\ \A i \in InFlight : ready_queue[i] \notin Checkpointed

\* C12: a failure while writing the checkpoint never changes the outcome of
\* the run: execute never fails with the error of the write, and a run whose
\* handlers all returned and that was not cancelled ends COMPLETED with the
\* output of every node.
C12_CheckpointBestEffort ==
    /\ raised # "OSError"
    /\ status.error.kind # "OSError"
    /\ (/\ pc \in {"returned", "raised"}
        /\ raised # "ValueError"
        /\ ~cancel_requested
        /\ (\A f \in faults : f.raised \in {"open", "dump"})
        /\ (\A k \in DOMAIN edges : edges[k].target \in NodeIds))
       => (status.status = "COMPLETED" /\ DOMAIN results = NodeIds)

\* some edge names a source or a target that is no node of the graph
HasDangling ==
    \E k \in DOMAIN edges : edges[k].source \notin NodeIds \/ edges[k].target \notin NodeIds

C14_CurrentNodesLive ==
    \A k \in DOMAIN events :
        /\ events[k].status \in TerminalStatuses => events[k].current_nodes = <<>>
        /\ k = 1 => events[k].current_nodes = <<>>
        /\ (k > 1 /\ events[k].status = "RUNNING"
              /\ ~FloatEq(events[k].progress, events[k - 1].progress))
           => events[k].current_nodes = <<>>

\* the chunks of a list of rows or of results, in order
Chunks(rs) == [i \in DOMAIN rs |-> rs[i].chunk]

\* C15: with alpha = 1 the hybrid retriever returns the chunks of the dense
\* search cut to top_k, in the same order, whatever the keyword list is; with
\* alpha = 0 it returns the chunks of the keyword search cut to top_k,
\* whatever the dense list is.
C15_AlphaExtremes ==
    (call.op = "hybrid" /\ ret.kind = "list") =>
        /\ (FloatEq(call.alpha, Float(1, 1)) /\ call.has_embedding)
              => Chunks(ret.value) = Chunks(Prefix(call.dense, call.top_k))
        /\ FloatEq(call.alpha, Float(0, 1))
              => Chunks(ret.value) = Chunks(Prefix(call.keyword, call.top_k))

C15_Witness ==
    /\ call.op = "hybrid"
    /\ ret.kind = "list"
    /\ FloatEq(call.alpha, Float(1, 1))
    /\ call.has_embedding
    /\ call.top_k = 1
    /\ Len(call.dense) = 2
    /\ FloatLt(call.dense[2].score, call.dense[1].score)
    /\ call.keyword # <<>>
    /\ call.keyword[1].chunk # call.dense[1].chunk
    /\ Len(ret.value) = 1

\* C16: a retriever returns at most top_k results, with scores that never
\* increase from one result to the next; top_k = 0 gives the empty list.
C16_TopKSorted ==
    ret.kind = "list" =>
        /\ Len(ret.value) <= call.top_k
        /\ \A i, j \in DOMAIN ret.value :
              i < j => FloatLeq(ret.value[j].score, ret.value[i].score)

\* lambda * sim(q, c) - (1 - lambda) * max over the selected s of sim(c, s)
MarginalRelevance(c, selected) ==
    LET sim_q == CosineSimilarity(call.query_embedding, call.candidates[c])
        sims == {CosineSimilarity(call.candidates[c], call.candidates[x]) : x \in selected}
        red == CHOOSE x \in sims : \A y \in sims : FloatLeq(y, x)
    IN  FloatSub(FloatMul(call.lambda_mult, sim_q),
                 FloatMul(FloatSub(Float(1, 1), call.lambda_mult), red))

\* C17: MMR selects min(top_k, number of candidates) distinct candidates: first
\* one of highest similarity to the query, then each time one of highest
\* marginal relevance among those not yet selected; on c1, c2, c3 of the
\* example with q = c1 and top_k = 2 it returns {c1, c2} at lambda 0.9 and
\* {c1, c3} at lambda 0.1.
C17_MmrSelection ==
    (call.op = "mmr" /\ ret.kind = "list" /\ call.has_embedding) =>
        LET sel == Chunks(ret.value)
            n == Len(call.candidates)
        IN  /\ Len(sel) = Min(call.top_k, n)
            /\ \A i, j \in DOMAIN sel : i # j => sel[i] # sel[j]
            /\ sel # <<>> =>
                  \A c \in 1..n :
                      FloatLeq(CosineSimilarity(call.query_embedding, call.candidates[c]),
                               CosineSimilarity(call.query_embedding, call.candidates[sel[1]]))
            /\ \A p \in 2..Len(sel) :
                  LET before == {sel[x] : x \in 1..(p - 1)}
                  IN  \A c \in (1..n) \ before :
                          FloatLeq(MarginalRelevance(c, before),
                                   MarginalRelevance(sel[p], before))
            /\ (/\ call.candidates = <<<<100, 0, 0>>, <<99, 1, 0>>, <<0, 100, 0>>>>
                /\ call.query_embedding = <<100, 0, 0>>
                /\ call.top_k = 2) =>
                  /\ call.lambda_mult = Float(9, 10) => sel = <<1, 2>>
                  /\ call.lambda_mult = Float(1, 10) => sel = <<1, 3>>

\* the rankings in the order given by the permutation f of their positions
Permuted(rankings, f) == [i \in DOMAIN rankings |-> rankings[f[i]]]

ListOrders(n) == {f \in [1..n -> 1..n] : \A i, j \in 1..n : i # j => f[i] # f[j]}

\* C18: fuse returns the same documents with the same fused scores in the
\* same order, in whatever order the ranking lists are passed.
C18_FuseOrderInvariant ==
    (call.op = "fuse" /\ ret.kind = "list") =>
        \A f \in ListOrders(Len(call.rankings)) :
            Fuse(Permuted(call.rankings, f), call.top_k) = ret.value

\* the sum of 1 / (k + rank + 1) over the lists that hold chunk d, rank from 0
RrfSum(lists, d) ==
    LET RECURSIVE Sum(_)
        Sum(m) == IF m = 0 THEN Float(0, 1)
                  ELSE LET hits == {r \in DOMAIN lists[m] : DocGet(lists[m][r], "chunk") = d
                                                            \/ DocGet(lists[m][r], "id") = d}
                       IN  IF hits = {} THEN Sum(m - 1)
                           ELSE FloatAdd(Sum(m - 1), Float(1, RrfK + (CHOOSE r \in hits : TRUE)))
    IN  Sum(Len(lists))

\* C19: the multi-query retriever returns the RRF fusion of the result lists
\* of the variants: at most top_k results, each scored with the sum of
\* 1/(k + rank + 1) over the lists holding its chunk and carrying the variant
\* list in its metadata, and a non-empty result when some list is non-empty
\* and top_k >= 1.
C19_MultiQueryFusion ==
    (call.op = "multi_query" /\ ret.kind = "list") =>
        /\ Len(ret.value) <= call.top_k
        /\ \A i \in DOMAIN ret.value :
              /\ ret.value[i].metadata.augmented_queries = call.queries
              /\ \E d \in ChunkIds :
                    /\ d \in {DocGet(ret.value[i], "chunk"), DocGet(ret.value[i], "id")}
                    /\ FloatEq(ret.value[i].rerank_score, RrfSum(call.results_lists, d))
        /\ (call.top_k >= 1 /\ \E m \in DOMAIN call.results_lists : call.results_lists[m] # <<>>)
              => ret.value # <<>>

\* the retrieval needs the query embedding for a dense search
NeedsEmbedding ==
    \/ call.op \in {"mmr", "parent"}
    \/ call.op = "hybrid" /\ FloatLt(Float(0, 1), call.alpha)

\* C20: a retrieval that needs a query embedding and is called without one
\* fails with a MissingInput error and returns no result list.
C20_MissingEmbeddingFails ==
    (ret # Pending /\ NeedsEmbedding /\ ~call.has_embedding) => ret.kind = "error"

----------------------------------------------------------------------------
(* Properties of the scheduling *)

\* the nodes an edge path leads from to n
RECURSIVE AncestorsFrom(_)
AncestorsFrom(S) ==
    LET T == S \cup UNION {Parents(m) : m \in S} IN IF T = S THEN S ELSE AncestorsFrom(T)

Ancestors(n) == AncestorsFrom(Parents(n))

\* the node's handler returned: its child of the current wave ended well, or
\* its output was recorded by an earlier wave
Finished(p) ==
    \/ p \in DOMAIN results /\ results[p].kind = "output"
    \/ \E i \in DOMAIN tasks : ready_queue[i] = p /\ tasks[i] = "ok"

\* the node is in no wave so far, and each of its parents has finished
ReadyToStart(n) ==
    /\ pc = "gather"
    /\ ~cancel_requested
    /\ ~WaveRaised
    /\ starts[n] = 0
    /\ \A i \in DOMAIN ready_queue : ready_queue[i] # n
    /\ Parents(n) # {}
    /\ \A p \in Parents(n) : Finished(p)

\* the wave positions whose child has not finished
Unfinished == {i \in DOMAIN tasks : tasks[i] \notin DoneStates}

\* C26: a node whose parents have all finished never has to wait for a node
\* that is not one of its ancestors: while such a node is still running, the
\* engine can go on to dispatch the ready node.
C26_GreedyStart ==
    \A n \in NodeIds :
        (ReadyToStart(n) /\ \E i \in Unfinished : ready_queue[i] \notin Ancestors(n))
            => ENABLED ProcessWave

\* the nodes whose handler ended by raising asyncio.CancelledError
RaisedCancelled == {f.node : f \in {g \in faults : g.raised = "raised_cancelled"}}

\* C27: when a handler ends by raising CancelledError, the cancellation is
\* not stored as the node's output, the node is not counted as completed, no
\* successor of the node is started, and the run ends CANCELLED.
C27_HandlerCancelPropagates ==
    \A n \in RaisedCancelled :
        /\ n \in DOMAIN results => results[n].kind # "CancelledError"
        /\ completed_count <= Cardinality({m \in DOMAIN results : results[m].kind = "output"})
        /\ \A s \in Successors({n}) : starts[s] = 0
        /\ pc \in {"returned", "raised"} =>
              status.status = "CANCELLED" /\ raised = "CancelledError"

\* C28: when a handler has failed while peers of its wave are unfinished, the
\* engine does not wait for them to run to completion: the step that records
\* the error and sets FAILED can be taken at once.
C28_FailFast ==
    (pc = "gather" /\ ~cancel_requested /\ WaveRaised /\ Unfinished # {})
        => ENABLED ProcessWave

\* the waves dispatched so far: current_nodes of the status emitted at the
\* head of each pass of the loop
Waves ==
    LET heads == {k \in DOMAIN events :
                     /\ k % 2 = 0
                     /\ events[k].status = "RUNNING"}
    IN  [k \in heads |-> events[k].current_nodes]

\* how many times node n was put in a wave
Enqueued(n) ==
    Cardinality({<<k, i>> \in UNION {{<<k, i>> : i \in DOMAIN Waves[k]} : k \in DOMAIN Waves} :
                    Waves[k][i] = n})

\* C30: no node is put in more than one wave or started twice; in a run that
\* ends COMPLETED every node's handler was invoked exactly once and the keys
\* of results are the nodes of the graph.
C30_EachNodeOnce ==
    /\ \A n \in NodeIds : Enqueued(n) <= 1 /\ starts[n] <= Enqueued(n)
    /\ status.status = "COMPLETED" =>
          /\ \A n \in NodeIds : starts[n] = 1
          /\ DOMAIN results = NodeIds

\* a COMPLETED run of a graph with a duplicate edge into a node with two parents
C30_Witness ==
    /\ status.status = "COMPLETED"
    /\ \E j, k \in DOMAIN edges : j # k /\ edges[j] = edges[k]
    /\ \E n \in NodeIds : Cardinality(Parents(n)) >= 2
    /\ ~HasDangling

----------------------------------------------------------------------------
(* Properties of the order of tied results *)

\* C25: results of equal score are returned in ascending order of chunk id,
\* whatever the order in which the searches delivered them.
C25_TieByChunkId ==
    (ret.kind = "list" /\ call.op \in {"hybrid", "parent"}) =>
        \A i, j \in DOMAIN ret.value :
            (i < j /\ FloatEq(ret.value[i].score, ret.value[j].score))
                => ret.value[i].chunk < ret.value[j].chunk

----------------------------------------------------------------------------
(* Properties of QueryAugmentor *)

\* the calls that have returned
ReturnedRequests == {i \in DOMAIN requests : requests[i].pc = "returned"}

\* C21: augment_multi_query(q, n) returns a list of n strings that contains
\* q, whatever the completion, without a client and when the completion fails.
C21_MultiQueryVariants ==
    \A i \in ReturnedRequests :
        requests[i].op = "multi" =>
            LET v == Augmented(requests[i])
            IN  /\ v.kind = "list"
                /\ Len(v.items) = requests[i].num_variants
                /\ InList(requests[i].query, v.items)

SameInput(i, j) ==
    /\ requests[i].op = requests[j].op
    /\ requests[i].query = requests[j].query
    /\ requests[i].num_variants = requests[j].num_variants

\* call i got its response from the chat completion before call j began
AnsweredBefore(i, j) ==
    /\ i \in ReturnedRequests
    /\ requests[i].source = "llm"
    /\ requests[i].ended < requests[j].began

\* the cache holds only responses of the chat completion, under the key of
\* the operation and input they were given for; a call served from the cache
\* follows a call of the same operation and input that the LLM answered
CacheSound ==
    /\ \A k \in DOMAIN cache :
          \E i \in ReturnedRequests :
              /\ requests[i].source = "llm"
              /\ CacheKey(requests[i].op, requests[i].query, requests[i].num_variants) = k
              /\ requests[i].text = cache[k]
    /\ \A j \in DOMAIN requests :
          requests[j].source = "cache" =>
              \E i \in DOMAIN requests : SameInput(i, j) /\ AnsweredBefore(i, j)
    /\ \A i \in ReturnedRequests :
          requests[i].source \in {"simulated", "fallback"} =>
              (requests[i].source = "simulated") = ~requests[i].has_client

\* C29 as stated: once a call has obtained a response from the LLM, every
\* later call with the same operation and input returns that same response
\* without invoking the LLM; no other call receives it; placeholder and
\* fallback values are never cached.
C29_CacheByInput ==
    /\ CacheSound
    /\ \A i, j \in DOMAIN requests :
          (SameInput(i, j) /\ AnsweredBefore(i, j)) =>
              /\ requests[j].source = "cache"
              /\ Augmented(requests[j]) = Augmented(requests[i])

\* C29 as amended: such a later call is served from the cache without
\* invoking the LLM, and returns the response most recently obtained from the
\* LLM for that operation and input before the call began.
C29_CacheLatestByInput ==
    /\ CacheSound
    /\ \A i, j \in DOMAIN requests :
          (SameInput(i, j) /\ AnsweredBefore(i, j)) =>
              /\ requests[j].source = "cache"
              /\ (\A m \in DOMAIN requests :
                     (SameInput(m, j) /\ AnsweredBefore(m, j))
                         => requests[m].ended <= requests[i].ended)
                    => Augmented(requests[j]) = Augmented(requests[i])

\* two calls for one input were both answered by the LLM, differently, and a
\* third was then served from the cache
C29_Witness ==
    \E i, j, m \in DOMAIN requests :
        /\ SameInput(i, j) /\ SameInput(j, m)
        /\ AnsweredBefore(i, m) /\ AnsweredBefore(j, m)
        /\ requests[i].ended < requests[j].ended
        /\ requests[i].text # requests[j].text
        /\ requests[m].source = "cache"
        /\ requests[m].text = requests[j].text

----------------------------------------------------------------------------
(* Properties of the chunkers *)

\* needle occurs in hay
Contains(hay, needle) == Find(hay, needle) # -1

\* the chunks emitted so far
Emitted == IF ret.kind \in {"list", "loop"} THEN ret.value ELSE <<>>

\* C22: every chunk emitted on a text T has 0 <= start <= end <= len(T), and
\* T[start:end] contains the chunk's text without its surrounding whitespace.
C22_ChunkOffsets ==
    call.op \in {"fixed", "recursive", "recursive_chunker"} =>
        \A k \in DOMAIN Emitted :
            LET c == Emitted[k]
            IN  /\ 0 <= c.start
                /\ c.start <= c.end
                /\ c.end <= Len(call.text)
                /\ Contains(Slice(call.text, c.start, c.end), Strip(c.text))

\* the windows of width size over text from start on, one every step
\* characters, up to the first that reaches the end of the text
RECURSIVE WindowsFrom(_, _, _, _)
WindowsFrom(text, size, step, start) ==
    IF start >= Len(text) THEN <<>>
    ELSE LET end == Min(start + size, Len(text))
         IN  <<Chunk(Slice(text, start, end), start, end)>>
             \o (IF end >= Len(text) THEN <<>>
                 ELSE WindowsFrom(text, size, step, start + step))

\* C23: fixed-size chunking with overlap >= chunk_size is rejected with
\* InvalidConfig and emits nothing; the loop makes at most one pass per
\* character of the text; with overlap < chunk_size the result is the windows
\* of width chunk_size taken every chunk_size - overlap characters.
C23_FixedOverlap ==
    call.op = "fixed" =>
        /\ call.overlap >= call.chunk_size =>
              /\ ret.kind \in {"pending", "error"}
              /\ ret.kind = "error" => ret.value = "InvalidConfig"
        /\ Len(Emitted) <= Len(call.text)
        /\ (call.overlap < call.chunk_size /\ ret.kind = "list") =>
              ret.value = WindowsFrom(call.text, call.chunk_size,
                                      call.chunk_size - call.overlap, 0)

\* the part of C23 that concerns valid configurations
FixedWindows ==
    (call.op = "fixed" /\ call.overlap < call.chunk_size) =>
        /\ Len(Emitted) <= Len(call.text)
        /\ ret.kind = "list" =>
              ret.value = WindowsFrom(call.text, call.chunk_size,
                                      call.chunk_size - call.overlap, 0)

----------------------------------------------------------------------------
(* Properties of the semantic chunker *)

\* the gaps after which a chunk ends: gap i lies after sentence i
Boundaries ==
    {i \in DOMAIN call.similarities :
        \E k \in DOMAIN ret.value : ret.value[k].end_char = call.sentences[i].end_char}

\* the first sentence of the chunk that sentence i belongs to
ChunkStart(i) ==
    LET before == {b \in Boundaries : b < i}
    IN  IF before = {} THEN 1 ELSE 1 + CHOOSE b \in before : \A x \in before : x <= b

\* the characters the chunk accumulated up to sentence i spans
Accumulated(i) ==
    call.sentences[i].end_char - call.sentences[ChunkStart(i)].start_char

\* s_i <= s_(i-1) and s_i <= s_(i+1), with 1 outside the range
Valley(i) ==
    LET s == call.similarities
    IN  /\ i > 1 => FloatLeq(s[i], s[i - 1])
        /\ i < Len(s) => FloatLeq(s[i], s[i + 1])
        /\ FloatLeq(s[i], Float(1, 1))

\* C24: for n >= 2 sentences, a chunk ends after gap i iff s_i < threshold,
\* gap i is a valley and the chunk accumulated so far spans at least
\* min_chunk_size characters; the chunks are consecutive groups of sentences
\* that hold every sentence once, in order.
C24_ValleySplit ==
    (call.op = "semantic" /\ ret.kind = "list" /\ Len(call.sentences) >= 2) =>
        /\ \A i \in DOMAIN call.similarities :
              i \in Boundaries <=>
                  /\ FloatLt(call.similarities[i], call.threshold)
                  /\ Valley(i)
                  /\ Accumulated(i) >= call.min_chunk_size
        /\ Len(ret.value) = Cardinality(Boundaries) + 1
        /\ ret.value[1].start_char = call.sentences[1].start_char
        /\ ret.value[Len(ret.value)].end_char =
              call.sentences[Len(call.sentences)].end_char
        /\ \A k \in DOMAIN ret.value :
              \E i, j \in DOMAIN call.sentences :
                  /\ i <= j
                  /\ ret.value[k].start_char = call.sentences[i].start_char
                  /\ ret.value[k].end_char = call.sentences[j].end_char
                  /\ k < Len(ret.value) =>
                        ret.value[k + 1].start_char = call.sentences[j + 1].start_char

\* four sentences: a chunk ends at one valley under the threshold, and none
\* at another because the chunk is still shorter than min_chunk_size
C24_Witness ==
    /\ call.op = "semantic"
    /\ ret.kind = "list"
    /\ Len(call.sentences) = MaxSentences
    /\ Boundaries # {}
    /\ \E i \in DOMAIN call.similarities :
          /\ i \notin Boundaries
          /\ FloatLt(call.similarities[i], call.threshold)
          /\ Valley(i)
    /\ \E i \in DOMAIN call.similarities :
          /\ i \notin Boundaries
          /\ FloatLt(call.similarities[i], call.threshold)
          /\ ~Valley(i)

====
